---- MODULE Spec2Model ----
(***************************************************************************)
(* A model of the checkers engine of src/src/main.rs: the Board (grid,     *)
(* move history, turn counter), its move generation, apply / undo, the     *)
(* derived player to move, the winner test, the static evaluation, and     *)
(* the search (find_best_move / rate) run step by step by the game loop    *)
(* of main.                                                                *)
(*                                                                         *)
(* Option<T> is modelled as a sequence of length 0 (None) or 1 (Some),     *)
(* Vec<T> as a sequence, f32 scores as integers (every weight of the       *)
(* configuration is a small whole number, so the f32 sums are exact).      *)
(***************************************************************************)
EXTENDS Integers, Sequences, FiniteSets, TLC

VARIABLES
    board,      \* Board.board : 8x8 grid of Option<PlayersPiece>
    moves,      \* Board.moves : the history of applied moves
    turn,       \* Board.turn
    pc,         \* where the running program is
    fbm,        \* the locals of the running find_best_move, or None
    stack,      \* the frames of the running rate_inner calls, outermost first
    move_,      \* main's move_ : the move find_best_move returned, or None
    err         \* the panic message that ended the program, or "none"

vars == <<board, moves, turn, pc, fbm, stack, move_, err>>

----------------------------------------------------------------------------
(* Bounds and the configuration main passes to Board::new.                 *)

\* RateConfig.max_depth of the modelled run (main passes a larger depth).
MaxDepth == 1

\* The longest move history an API caller builds in SpecApi.
MaxMoves == 6

\* The longest move history the two players of SpecPlay build.
MaxPlies == 10

\* The largest weight, of either sign, PositionRates::rate is called with
\* in SpecRate.
MaxWeight == 2

Lines == 2
PiecesPawn == 1
PiecesQueen == 3
PositionPawn == 0
PositionQueen == 0
KillsPawn == 10
KillsQueen == 30
Win == 1000
TurnLimit == 100

----------------------------------------------------------------------------
(* Option, Color, Piece, Move.                                             *)

None == <<>>
Some(x) == <<x>>
unwrap_or(opt, default) == IF opt = None THEN default ELSE opt[1]

White == "White"
Black == "Black"
Pawn == "Pawn"
Queen == "Queen"

\* Both colours advancing towards row 7.
dir_up_for_both(color) == 1

dir(color) == IF color = White THEN 1 ELSE -1

other(color) == IF color = White THEN Black ELSE White

PlayersPiece(color, piece) == [color |-> color, piece |-> piece]

Move(from, to, piece, kill, color) ==
    [from |-> from, to |-> to, piece |-> piece, kill |-> kill, color |-> color]

PosUncolorPiece(piece, row, col) == [piece |-> piece, row |-> row, col |-> col]

is_upgrade(m) ==
    m.piece /= Queen /\ m.to[1] = (IF m.color = White THEN 7 ELSE 0)

\* continues without the test for a promotion.
continues_through_upgrade(m) == m.kill /= None

continues(m) == m.kill /= None /\ ~is_upgrade(m)

contains_killer_move(ms) == \E k \in 1..Len(ms) : ms[k].kill /= None

\* filter_killer_moves that drops no move.
filter_killer_moves_keeps_all(ms) == ms

filter_killer_moves(ms) == SelectSeq(ms, LAMBDA m : m.kill /= None)

contains_piece_move(piece, ms) == \E k \in 1..Len(ms) : ms[k].piece = piece

filter_piece_moves(piece, ms) == SelectSeq(ms, LAMBDA m : m.piece = piece)

----------------------------------------------------------------------------
(* The Board.  An operator's self is the record of the three fields.       *)

Self == [board |-> board, moves |-> moves, turn |-> turn]

empty == [board |-> [r \in 0..7 |-> [c \in 0..7 |-> None]],
          moves |-> <<>>,
          turn |-> 0]

new(lines) ==
    [empty EXCEPT !.board =
        [i \in 0..7 |-> [j \in 0..7 |->
            IF (i + j) % 2 = 0
            THEN IF i < lines THEN Some(PlayersPiece(White, Pawn))
                 ELSE IF i >= 8 - lines THEN Some(PlayersPiece(Black, Pawn))
                 ELSE None
            ELSE None]]]

get_ref(self, row, col) == self.board[row][col]

in_bounds(row, col) == row >= 0 /\ row < 8 /\ col >= 0 /\ col < 8

is_free(self, row, col) == in_bounds(row, col) /\ get_ref(self, row, col) = None

last_move(self) ==
    IF self.moves = <<>> THEN None ELSE Some(self.moves[Len(self.moves)])

last_player(self) ==
    IF last_move(self) = None THEN None ELSE Some(last_move(self)[1].color)

\* One iteration of the Pawn loop of find_moves, for one col_offset.
pawn_step(self, rowu, colu, piece, color, kills, col_offset) ==
    LET row == rowu + dir(color)
        col == colu + col_offset
    IN  IF is_free(self, row, col)
        THEN IF ~unwrap_or(kills, FALSE)
             THEN <<Move(<<rowu, colu>>, <<row, col>>, piece, None, color)>>
             ELSE <<>>
        ELSE IF /\ in_bounds(row, col)
                /\ get_ref(self, row, col)[1].color /= color
                /\ is_free(self, row + dir(color), col + col_offset)
        THEN IF unwrap_or(kills, TRUE)
             THEN <<Move(<<rowu, colu>>,
                         <<row + dir(color), col + col_offset>>,
                         piece,
                         Some(PosUncolorPiece(get_ref(self, row, col)[1].piece,
                                              row, col)),
                         color)>>
             ELSE <<>>
        ELSE <<>>

\* The squares a while self.is_free(row, col) loop of find_moves walks over.
RECURSIVE free_run(_, _, _, _, _)
free_run(self, row, col, row_offset, col_offset) ==
    IF is_free(self, row, col)
    THEN <<<<row, col>>>> \o
         free_run(self, row + row_offset, col + col_offset, row_offset, col_offset)
    ELSE <<>>

\* One iteration of the Queen loops of find_moves, for one direction.
queen_step(self, rowu, colu, piece, color, kills, row_offset, col_offset) ==
    LET jumps(row, col, landings) ==
            [k \in 1..Len(landings) |->
                Move(<<rowu, colu>>, landings[k], piece,
                     Some(PosUncolorPiece(get_ref(self, row, col)[1].piece, row, col)),
                     color)]
        blocked(slides, row, col) ==
            IF /\ in_bounds(row, col)
               /\ get_ref(self, row, col)[1].color /= color
               /\ is_free(self, row + row_offset, col + col_offset)
            THEN IF ~unwrap_or(kills, TRUE)
                 THEN slides
                 ELSE slides \o
                      jumps(row, col,
                            free_run(self, row + row_offset, col + col_offset,
                                     row_offset, col_offset))
            ELSE slides
        walked(run) ==
            blocked(IF ~unwrap_or(kills, FALSE)
                    THEN [k \in 1..Len(run) |->
                             Move(<<rowu, colu>>, run[k], piece, None, color)]
                    ELSE <<>>,
                    rowu + (Len(run) + 1) * row_offset,
                    colu + (Len(run) + 1) * col_offset)
    IN  walked(free_run(self, rowu + row_offset, colu + col_offset,
                        row_offset, col_offset))

\* The moves of the iterations of a loop, in the order they were pushed.
RECURSIVE flatten(_, _)
flatten(pushed, k) ==
    IF k > Len(pushed) THEN <<>> ELSE pushed[k] \o flatten(pushed, k + 1)

\* The Pawn loop with a straight step in place of the left diagonal.
OffsetsStraight == <<0, 1>>

\* for col_offset in [-1, 1]
Offsets == <<-1, 1>>

\* for row_offset in [-1, 1] { for col_offset in [-1, 1]
Directions == <<<<-1, -1>>, <<-1, 1>>, <<1, -1>>, <<1, 1>>>>

find_moves(self, row, col, kills) ==
    IF get_ref(self, row, col) = None
    THEN None
    ELSE LET piece == get_ref(self, row, col)[1].piece
             color == get_ref(self, row, col)[1].color
         IN  IF piece = Pawn
             THEN Some(flatten([d \in 1..Len(Offsets) |->
                                   pawn_step(self, row, col, piece, color, kills,
                                             Offsets[d])], 1))
             ELSE Some(flatten([d \in 1..Len(Directions) |->
                                   queen_step(self, row, col, piece, color, kills,
                                              Directions[d][1], Directions[d][2])], 1))

\* current_player keeping the mover after every capture that continues(),
\* without looking for a capture from the landing square.
current_player_no_lookahead(self) ==
    IF last_move(self) = None
    THEN White
    ELSE LET m == last_move(self)[1]
         IN  IF continues(m) THEN m.color ELSE other(m.color)

current_player(self) ==
    IF last_move(self) = None
    THEN White
    ELSE LET m == last_move(self)[1]
         IN  IF continues(m) /\ find_moves(self, m.to[1], m.to[2], Some(TRUE))[1] /= <<>>
             THEN m.color
             ELSE other(m.color)

\* (0..8) x (0..8) in the row-major order of the two nested ranges.
Squares == [k \in 1..64 |-> <<(k - 1) \div 8, (k - 1) % 8>>]

all_players_pieces(self, player) ==
    LET mine == SelectSeq(Squares, LAMBDA p :
                    /\ get_ref(self, p[1], p[2]) /= None
                    /\ get_ref(self, p[1], p[2])[1].color = player)
    IN  [k \in 1..Len(mine) |->
            <<mine[k][1], mine[k][2], get_ref(self, mine[k][1], mine[k][2])[1].piece>>]

all_current_pieces(self) == all_players_pieces(self, current_player(self))

\* flat_map(|p| self.find_moves(p.0, p.1, None).unwrap()) over ps[k..].
RECURSIVE flat_map_moves(_, _, _)
flat_map_moves(self, ps, k) ==
    IF k > Len(ps)
    THEN <<>>
    ELSE find_moves(self, ps[k][1], ps[k][2], None)[1] \o flat_map_moves(self, ps, k + 1)

\* find_all_current_moves without the Queen filter.
find_all_current_moves_any_piece(self) ==
    LET forced(all) ==
            IF ~contains_killer_move(all) THEN all ELSE filter_killer_moves(all)
    IN  forced(flat_map_moves(self, all_current_pieces(self), 1))

\* find_all_current_moves without the forced-capture filter.
find_all_current_moves_unforced(self) ==
    flat_map_moves(self, all_current_pieces(self), 1)

find_all_current_moves(self) ==
    LET queens_first(killers) ==
            IF ~contains_piece_move(Queen, killers)
            THEN killers
            ELSE filter_piece_moves(Queen, killers)
        forced(all) ==
            IF ~contains_killer_move(all)
            THEN all
            ELSE queens_first(filter_killer_moves(all))
    IN  forced(flat_map_moves(self, all_current_pieces(self), 1))

contains(ms, m) == \E k \in 1..Len(ms) : ms[k] = m

\* is_valid_move without the membership test.
is_valid_move_by_origin(self, m) ==
    IF get_ref(self, m.from[1], m.from[2]) = None
    THEN FALSE
    ELSE get_ref(self, m.from[1], m.from[2])[1].color = current_player(self)

is_valid_move(self, m) ==
    IF get_ref(self, m.from[1], m.from[2]) = None
    THEN FALSE
    ELSE IF get_ref(self, m.from[1], m.from[2])[1].color /= current_player(self)
    THEN FALSE
    ELSE contains(find_all_current_moves(self), m)

\* winner without the test for a side to move that has no legal move.
winner_by_pieces_only(self) ==
    IF Len(all_players_pieces(self, White)) = 0
    THEN Some(Black)
    ELSE IF Len(all_players_pieces(self, Black)) = 0
    THEN Some(White)
    ELSE None

winner(self) ==
    IF Len(all_players_pieces(self, White)) = 0
    THEN Some(Black)
    ELSE IF Len(all_players_pieces(self, Black)) = 0
    THEN Some(White)
    ELSE IF find_all_current_moves(self) = <<>>
    THEN Some(other(current_player(self)))
    ELSE None

\* push_unsafe up to the push onto the history: the grid and the history.
push_grid(self, m) ==
    LET cleared == [self.board EXCEPT ![m.from[1]][m.from[2]] = None]
        killed == IF m.kill /= None
                  THEN [cleared EXCEPT ![m.kill[1].row][m.kill[1].col] = None]
                  ELSE cleared
        piece == IF is_upgrade(m) THEN Queen ELSE m.piece
    IN  [self EXCEPT
            !.board = [killed EXCEPT ![m.to[1]][m.to[2]] =
                           Some(PlayersPiece(m.color, piece))],
            !.moves = Append(self.moves, m)]

\* push_unsafe that leaves the turn counter alone.
push_unsafe_never_counts(self, m) == push_grid(self, m)

\* push_unsafe counting every move as a turn.
push_unsafe_counts_every_move(self, m) ==
    LET after == push_grid(self, m)
    IN  [after EXCEPT !.turn = after.turn + 1]

push_unsafe(self, m) ==
    LET after == push_grid(self, m)
    IN  IF current_player(after) /= m.color
        THEN [after EXCEPT !.turn = after.turn + 1]
        ELSE after

\* push: the checked apply; err is the panic it ends in, or "none".
push(self, m) ==
    IF ~is_valid_move(self, m)
    THEN [self |-> self, err |-> "Invalid move"]
    ELSE [self |-> push_unsafe(self, m), err |-> "none"]

\* Whether pop's self.turn -= 1 runs with turn = 0: a panic in a build with
\* overflow checks, a wrap-around to usize::MAX in one without.  The wrapped
\* counter is written -1 here (the model checker's integers are narrower
\* than a usize), and every comparison of turn reads a negative value as
\* usize::MAX.
pop_underflows(self) ==
    /\ self.moves /= <<>>
    /\ current_player(self) /= self.moves[Len(self.moves)].color
    /\ self.turn = 0

\* pop restoring the promoted kind on the origin square.
pop_keeps_promotion(self) ==
    LET m == self.moves[Len(self.moves)]
        counted == IF current_player(self) /= m.color
                   THEN self.turn - 1
                   ELSE self.turn
        origin == [self.board EXCEPT ![m.from[1]][m.from[2]] =
                       Some(PlayersPiece(m.color,
                                         IF is_upgrade(m) THEN Queen ELSE m.piece))]
        revived == IF m.kill /= None
                   THEN [origin EXCEPT ![m.kill[1].row][m.kill[1].col] =
                             Some(PlayersPiece(other(m.color), m.kill[1].piece))]
                   ELSE origin
    IN  [board |-> [revived EXCEPT ![m.to[1]][m.to[2]] = None],
         moves |-> SubSeq(self.moves, 1, Len(self.moves) - 1),
         turn |-> counted]

\* pop that leaves the square of the captured piece empty.
pop_forgets_kill(self) ==
    LET m == self.moves[Len(self.moves)]
    IN  [board |-> [self.board EXCEPT
                       ![m.from[1]][m.from[2]] = Some(PlayersPiece(m.color, m.piece)),
                       ![m.to[1]][m.to[2]] = None],
         moves |-> SubSeq(self.moves, 1, Len(self.moves) - 1),
         turn |-> IF current_player(self) /= m.color
                  THEN self.turn - 1
                  ELSE self.turn]

\* pop on a board with a non-empty history (the empty one panics, see api_pop).
pop(self) ==
    LET m == self.moves[Len(self.moves)]
        counted == IF current_player(self) /= m.color
                   THEN self.turn - 1
                   ELSE self.turn
        origin == [self.board EXCEPT ![m.from[1]][m.from[2]] =
                       Some(PlayersPiece(m.color, m.piece))]
        revived == IF m.kill /= None
                   THEN [origin EXCEPT ![m.kill[1].row][m.kill[1].col] =
                             Some(PlayersPiece(other(m.color), m.kill[1].piece))]
                   ELSE origin
    IN  [board |-> [revived EXCEPT ![m.to[1]][m.to[2]] = None],
         moves |-> SubSeq(self.moves, 1, Len(self.moves) - 1),
         turn |-> counted]

----------------------------------------------------------------------------
(* The evaluator.                                                          *)

pieces_rate(piece) == IF piece = Pawn THEN PiecesPawn ELSE PiecesQueen

kills_rate(piece) == IF piece = Pawn THEN KillsPawn ELSE KillsQueen

abs(v) == IF v < 0 THEN -v ELSE v

\* centered without the rounding up of the distance.
centered_rounding_down(v) == 5 - (abs(v * 2 - 7) \div 2)

centered(v) == 5 - ((abs(v * 2 - 7) + 1) \div 2)

\* PositionRates::rate for the weights self.pawn and self.queen, which are
\* whole numbers here, so that the f32 products are exact.
position_rates_rate(self, row, col, color, piece) ==
    IF piece = Pawn
    THEN (IF color = White THEN row + 1 ELSE 8 - row) * self.pawn
    ELSE (centered(row) + centered(col)) * self.queen

\* The call of rate_current_board, with the weights main configures.
position_rate(row, col, color, piece) ==
    position_rates_rate([pawn |-> PositionPawn, queen |-> PositionQueen],
                        row, col, color, piece)

RECURSIVE sum_kills(_, _)
sum_kills(ms, k) ==
    IF k > Len(ms) THEN 0 ELSE kills_rate(ms[k].kill[1].piece) + sum_kills(ms, k + 1)

RECURSIVE sum_pieces(_, _, _, _)
sum_pieces(self, player, ps, k) ==
    IF k > Len(ps)
    THEN 0
    ELSE position_rate(ps[k][1], ps[k][2], player, ps[k][3])
         + pieces_rate(ps[k][3])
         + sum_kills(unwrap_or(find_moves(self, ps[k][1], ps[k][2], Some(TRUE)), <<>>), 1)
         + sum_pieces(self, player, ps, k + 1)

rate_player(self, player) ==
    sum_pieces(self, player, all_players_pieces(self, player), 1)

rate_current_board(self) ==
    rate_player(self, current_player(self))
    - rate_player(self, other(current_player(self)))

----------------------------------------------------------------------------
(* The search, one call or return of with_move_unsafe per step.            *)

\* Iterator::max_by as rate_inner uses it: the fold keeps the running
\* maximum unless the next value compares greater or equal.
max_by(best, x) ==
    IF best = None THEN Some(x)
    ELSE IF best[1] > x THEN best
    ELSE Some(x)

\* max_by_key keeping the first of several maximal elements.
max_by_key_first(best, key, item) ==
    IF best = None THEN Some([key |-> key, item |-> item])
    ELSE IF best[1].key >= key THEN best
    ELSE Some([key |-> key, item |-> item])

\* Iterator::max_by_key as find_best_move uses it, on (key, item) pairs.
max_by_key(best, key, item) ==
    IF best = None THEN Some([key |-> key, item |-> item])
    ELSE IF best[1].key > key THEN best
    ELSE Some([key |-> key, item |-> item])

\* A rate_inner call that returned at once (a terminal or a static value).
leaf(player, depth, value, via) ==
    [player |-> player, depth |-> depth, list |-> <<>>, i |-> 1, scores |-> <<>>,
     best |-> None, continuation |-> None, moves_before |-> None,
     ret |-> Some(value), via |-> via]

\* rate_inner testing the depth before the winner.
rate_inner_depth_first(self, player, depth) ==
    IF depth >= MaxDepth
    THEN leaf(player, depth, rate_current_board(self), "static")
    ELSE IF winner(self) /= None
    THEN leaf(player, depth,
              IF winner(self)[1] = player THEN Win ELSE -Win, "terminal")
    ELSE [player |-> player, depth |-> depth,
          list |-> find_all_current_moves(self), i |-> 1, scores |-> <<>>,
          best |-> None, continuation |-> None, moves_before |-> None,
          ret |-> None, via |-> "search"]

\* rate_inner expanding the nodes of depth max_depth too.
rate_inner_cut_late(self, player, depth) ==
    IF winner(self) /= None
    THEN leaf(player, depth,
              IF winner(self)[1] = player THEN Win ELSE -Win, "terminal")
    ELSE IF depth <= MaxDepth
    THEN [player |-> player, depth |-> depth,
          list |-> find_all_current_moves(self), i |-> 1, scores |-> <<>>,
          best |-> None, continuation |-> None, moves_before |-> None,
          ret |-> None, via |-> "search"]
    ELSE leaf(player, depth, rate_current_board(self), "static")

\* rate_inner from its entry to the first move of its loop.
rate_inner(self, player, depth) ==
    LET entered(won) ==
            IF won /= None
            THEN leaf(player, depth, IF won[1] = player THEN Win ELSE -Win, "terminal")
            ELSE IF depth < MaxDepth
            THEN [player |-> player, depth |-> depth,
                  list |-> find_all_current_moves(self), i |-> 1, scores |-> <<>>,
                  best |-> None, continuation |-> None, moves_before |-> None,
                  ret |-> None, via |-> "search"]
            ELSE leaf(player, depth, rate_current_board(self), "static")
    IN  entered(winner(self))

panic(message) ==
    /\ err' = message
    /\ pc' = "panic"

\* The ways the build may treat pop's subtraction: with overflow checks
\* (TRUE) only where the subtraction would underflow.
overflow_checks(self) == IF pop_underflows(self) THEN {TRUE, FALSE} ELSE {FALSE}

Init ==
    /\ board = new(Lines).board
    /\ moves = new(Lines).moves
    /\ turn = new(Lines).turn
    /\ pc = "main"
    /\ fbm = None
    /\ stack = <<>>
    /\ move_ = None
    /\ err = "none"

\* main: the test of the while loop, and find_best_move up to its first move.
main_loop ==
    /\ pc = "main"
    /\ IF winner(Self) = None /\ turn >= 0 /\ turn < TurnLimit
       THEN LET list == find_all_current_moves(Self)
            IN  IF list = <<>>
                THEN /\ panic("unwrap on None")
                     /\ UNCHANGED fbm
                ELSE /\ fbm' = Some([list |-> list, i |-> 1, keys |-> <<>>,
                                     best |-> None, moves_before |-> None])
                     /\ pc' = "search"
                     /\ UNCHANGED err
       ELSE /\ pc' = "done"
            /\ UNCHANGED <<fbm, err>>
    /\ UNCHANGED <<board, moves, turn, stack, move_>>

\* find_best_move: with_move_unsafe(*m, |b| -b.rate(b.current_player())) up to
\* the first move of rate_inner.
find_best_move_apply ==
    /\ pc = "search"
    /\ stack = <<>>
    /\ fbm[1].i <= Len(fbm[1].list)
    /\ LET called(after, callee) ==
               /\ board' = after.board
               /\ moves' = after.moves
               /\ turn' = after.turn
               /\ fbm' = Some([fbm[1] EXCEPT !.moves_before = Some(Len(moves))])
               /\ stack' = <<callee>>
               /\ IF callee.ret = None /\ callee.list = <<>>
                  THEN panic("No moves")
                  ELSE UNCHANGED <<pc, err>>
           applied(after) == called(after, rate_inner(after, current_player(after), 0))
       IN  applied(push_unsafe(Self, fbm[1].list[fbm[1].i]))
    /\ UNCHANGED move_

\* rate_inner: the closure of its map, up to the first move of the callee.
rate_inner_apply ==
    /\ pc = "search"
    /\ stack /= <<>>
    /\ LET top == stack[Len(stack)]
       IN  /\ top.ret = None
           /\ top.i <= Len(top.list)
           /\ IF last_player(Self) = None
              THEN /\ panic("max_depth must be > 0")
                   /\ UNCHANGED <<board, moves, turn, stack>>
              ELSE LET called(continuation, after, callee) ==
                           /\ board' = after.board
                           /\ moves' = after.moves
                           /\ turn' = after.turn
                           /\ stack' = [stack EXCEPT ![Len(stack)] =
                                            [top EXCEPT
                                                !.continuation = Some(continuation),
                                                !.moves_before = Some(Len(moves))]]
                                       \o <<callee>>
                           /\ IF callee.ret = None /\ callee.list = <<>>
                              THEN panic("No moves")
                              ELSE UNCHANGED <<pc, err>>
                       applied(continuation, after) ==
                           called(continuation, after,
                                  rate_inner(after, top.player,
                                             IF continuation THEN top.depth
                                             ELSE top.depth + 1))
                   IN  applied(current_player(Self) = last_player(Self)[1],
                               push_unsafe(Self, top.list[top.i]))
    /\ UNCHANGED <<fbm, move_>>

\* with_move_unsafe after f returned, inside rate_inner: pop, the assertion,
\* the sign of the closure, and one step of max_by.
rate_inner_undo ==
    /\ pc = "search"
    /\ Len(stack) >= 2
    /\ stack[Len(stack)].ret /= None
    /\ \E checked \in overflow_checks(Self) :
       LET value == stack[Len(stack)].ret[1]
           caller == stack[Len(stack) - 1]
           before == pop(Self)
           score == (-value) * (IF caller.continuation[1] THEN 1 ELSE -1)
           best == max_by(caller.best, score)
       IN  IF checked
           THEN /\ panic("attempt to subtract with overflow")
                /\ UNCHANGED <<board, moves, turn, stack>>
           ELSE
           /\ board' = before.board
           /\ moves' = before.moves
           /\ turn' = before.turn
           /\ IF caller.moves_before[1] /= Len(before.moves)
              THEN /\ panic("assertion failed")
                   /\ UNCHANGED stack
              ELSE /\ stack' = [SubSeq(stack, 1, Len(stack) - 1)
                                   EXCEPT ![Len(stack) - 1] =
                                       [caller EXCEPT
                                           !.i = caller.i + 1,
                                           !.scores = Append(caller.scores, score),
                                           !.best = best,
                                           !.ret = IF caller.i + 1 > Len(caller.list)
                                                   THEN best ELSE None]]
                   /\ UNCHANGED <<pc, err>>
    /\ UNCHANGED <<fbm, move_>>

\* with_move_unsafe after f returned, inside find_best_move: pop, the
\* assertion, the key, one step of max_by_key, and the return to main.
find_best_move_undo ==
    /\ pc = "search"
    /\ Len(stack) = 1
    /\ stack[1].ret /= None
    /\ \E checked \in overflow_checks(Self) :
       LET key == -(stack[1].ret[1])
           before == pop(Self)
           best == max_by_key(fbm[1].best, key, fbm[1].list[fbm[1].i])
           done == fbm[1].i + 1 > Len(fbm[1].list)
       IN  IF checked
           THEN /\ panic("attempt to subtract with overflow")
                /\ UNCHANGED <<board, moves, turn, stack, fbm, move_>>
           ELSE
           /\ board' = before.board
           /\ moves' = before.moves
           /\ turn' = before.turn
           /\ IF fbm[1].moves_before[1] /= Len(before.moves)
              THEN /\ panic("assertion failed")
                   /\ UNCHANGED <<stack, fbm, move_>>
              ELSE /\ stack' = <<>>
                   /\ fbm' = Some([fbm[1] EXCEPT !.i = fbm[1].i + 1,
                                                 !.keys = Append(fbm[1].keys, key),
                                                 !.best = best])
                   /\ move_' = IF done THEN Some(best[1].item) ELSE move_
                   /\ pc' = IF done THEN "push" ELSE pc
                   /\ UNCHANGED err

\* main: board.push(move_).
main_push ==
    /\ pc = "push"
    /\ LET returned(pushed) ==
               /\ board' = pushed.self.board
               /\ moves' = pushed.self.moves
               /\ turn' = pushed.self.turn
               /\ IF pushed.err /= "none"
                  THEN panic(pushed.err)
                  ELSE /\ pc' = "main"
                       /\ UNCHANGED err
       IN  returned(push(Self, move_[1]))
    /\ fbm' = None
    /\ UNCHANGED <<stack, move_>>

Next ==
    \/ main_loop
    \/ find_best_move_apply
    \/ rate_inner_apply
    \/ rate_inner_undo
    \/ find_best_move_undo
    \/ main_push

Spec == Init /\ [][Next]_vars

\* main has not returned and has not panicked.
Running == pc \in {"main", "search", "push"}

\* main is one thread that runs until it returns or panics: while it is
\* Running it keeps taking steps.  This is weak fairness of Next with the
\* enabling condition of Next written as the state predicate Running.
SpecLive == Spec /\ ([]<>(~Running) \/ []<><<Next>>_vars)

----------------------------------------------------------------------------
(* The Board under a caller of its interface: push with any move, pop.     *)

Range(seq) == {seq[k] : k \in 1..Len(seq)}

\* The squares the caller of SpecApi moves pieces from: the right half of
\* the board, where the two sides first meet.
CallerSquares == {p \in Range(Squares) : p[2] >= 4}

\* The moves a caller passes to push: every generated move of every piece
\* of either colour on CallerSquares, legal or not, and for each legal one
\* of them the move back from its (empty) landing square and the same move
\* with its piece kind changed.
PushInputs(self) ==
    LET generated == UNION {Range(unwrap_or(find_moves(self, p[1], p[2], None), <<>>)) :
                                p \in CallerSquares}
        legal == generated \cap Range(find_all_current_moves(self))
    IN  generated
        \cup {[m EXCEPT !.from = m.to, !.to = m.from] : m \in legal}
        \cup {[m EXCEPT !.piece = IF m.piece = Pawn THEN Queen ELSE Pawn] : m \in legal}

api_push ==
    /\ pc = "main"
    /\ Len(moves) < MaxMoves
    /\ \E m \in PushInputs(Self) :
       LET returned(pushed) ==
               /\ board' = pushed.self.board
               /\ moves' = pushed.self.moves
               /\ turn' = pushed.self.turn
               /\ IF pushed.err /= "none"
                  THEN panic(pushed.err)
                  ELSE UNCHANGED <<pc, err>>
       IN  returned(push(Self, m))
    /\ UNCHANGED <<fbm, stack, move_>>

\* pop that counts the turn down before it looks at the history.
pop_counts_first(self, checked) ==
    IF self.moves = <<>>
    THEN [self |-> [self EXCEPT !.turn = self.turn - 1], err |-> "No moves to pop"]
    ELSE IF checked
    THEN [self |-> self, err |-> "attempt to subtract with overflow"]
    ELSE [self |-> pop(self), err |-> "none"]

\* pop as a caller sees it: the condition of its first statement reads
\* current_player() and then moves.last().expect(..), which panics on an
\* empty history before anything is assigned; the subtraction panics where
\* the build checks overflow.
pop_expect(self, checked) ==
    IF self.moves = <<>>
    THEN [self |-> self, err |-> "No moves to pop"]
    ELSE IF checked
    THEN [self |-> self, err |-> "attempt to subtract with overflow"]
    ELSE [self |-> pop(self), err |-> "none"]

api_pop ==
    /\ pc = "main"
    /\ \E checked \in overflow_checks(Self) :
       LET returned(popped) ==
               /\ board' = popped.self.board
               /\ moves' = popped.self.moves
               /\ turn' = popped.self.turn
               /\ IF popped.err /= "none"
                  THEN panic(popped.err)
                  ELSE UNCHANGED <<pc, err>>
       IN  returned(pop_expect(Self, checked))
    /\ UNCHANGED <<fbm, stack, move_>>

NextApi ==
    \/ api_push
    \/ api_pop

SpecApi == Init /\ [][NextApi]_vars

----------------------------------------------------------------------------
(* The Board under two players who push legal moves only, and take moves   *)
(* back.                                                                   *)

\* The squares the players of SpecPlay move from and to: the left and the
\* centre of the board, where both sides advance and exchange pieces.
PlayFrom ==
    {<<0, 2>>, <<1, 1>>, <<1, 3>>, <<2, 2>>, <<2, 4>>,
     <<4, 6>>, <<5, 1>>, <<5, 5>>, <<6, 2>>, <<6, 6>>}

PlayTo ==
    {<<1, 3>>, <<2, 2>>, <<2, 4>>, <<3, 1>>, <<3, 5>>,
     <<4, 0>>, <<4, 6>>, <<5, 1>>, <<5, 5>>}

play_push ==
    /\ pc = "main"
    /\ Len(moves) < MaxPlies
    /\ winner(Self) = None
    /\ \E m \in Range(find_all_current_moves(Self)) :
       /\ m.from \in PlayFrom
       /\ m.to \in PlayTo
       /\ LET returned(pushed) ==
                  /\ board' = pushed.self.board
                  /\ moves' = pushed.self.moves
                  /\ turn' = pushed.self.turn
                  /\ IF pushed.err /= "none"
                     THEN panic(pushed.err)
                     ELSE UNCHANGED <<pc, err>>
          IN  returned(push(Self, m))
    /\ UNCHANGED <<fbm, stack, move_>>

NextPlay ==
    \/ play_push
    \/ api_pop

SpecPlay == Init /\ [][NextPlay]_vars

----------------------------------------------------------------------------
(* The engine on the boards of SpecPlay: the two players open the game by  *)
(* hand, and the body of main's loop runs once, for the last move of the   *)
(* opening, on every board they reach one move before its end.            *)

engine_loop ==
    /\ Len(moves) = MaxPlies - 1
    /\ main_loop

NextEngine ==
    \/ play_push
    \/ engine_loop
    \/ find_best_move_apply
    \/ rate_inner_apply
    \/ rate_inner_undo
    \/ find_best_move_undo
    \/ main_push

SpecEngine == Init /\ [][NextEngine]_vars

\* The engine is one thread: while main has not returned or panicked and a
\* search is under way it keeps taking steps.
SpecEngineLive == SpecEngine /\ ([]<>(pc /= "search") \/ []<><<NextEngine>>_vars)

\* PositionRates::rate called once, on its own: the call frame holds the
\* weights and the arguments, and the step fills in the value returned.
InitRate ==
    /\ board = new(Lines).board
    /\ moves = <<>>
    /\ turn = 0
    /\ pc = "rate"
    /\ fbm = None
    /\ move_ = None
    /\ err = "none"
    /\ \E pawn \in -MaxWeight..MaxWeight, queen \in -MaxWeight..MaxWeight,
          row \in 0..7, col \in 0..7, color \in {White, Black},
          piece \in {Pawn, Queen} :
          stack = <<[self |-> [pawn |-> pawn, queen |-> queen],
                     row |-> row, col |-> col, color |-> color, piece |-> piece,
                     ret |-> None]>>

position_rate_apply ==
    /\ pc = "rate"
    /\ stack[1].ret = None
    /\ stack' = <<[stack[1] EXCEPT !.ret =
                       Some(position_rates_rate(stack[1].self, stack[1].row,
                                                stack[1].col, stack[1].color,
                                                stack[1].piece))]>>
    /\ UNCHANGED <<board, moves, turn, pc, fbm, move_, err>>

SpecRate == InitRate /\ [][position_rate_apply]_vars

----------------------------------------------------------------------------
(* Properties.                                                             *)

Legal == find_all_current_moves(Self)

\* Every move find_moves generates, with no filter, for the pieces of the
\* side to move.
Generated ==
    LET mover == current_player(Self)
    IN  UNION {Range(find_moves(Self, p[1], p[2], None)[1]) :
                  p \in {q \in Range(Squares) :
                            /\ board[q[1]][q[2]] /= None
                            /\ board[q[1]][q[2]][1].color = mover}}

FarRank(color) == IF color = White THEN 7 ELSE 0

\* C1: applying any legal move and then undoing it (pop) restores the board
\* exactly: the grid, the history, the turn counter and so the derived
\* player to move.  push_unsafe is applied for every legal move, the checked
\* push too for every capture and every promotion.
C1_ApplyUndoRestores ==
    \A m \in Range(Legal) :
        LET after == push_unsafe(Self, m)
        IN  /\ pop(after) = Self
            /\ ~pop_underflows(after)
            /\ ((m.kill /= None \/ is_upgrade(m))
                   => push(Self, m) = [self |-> after, err |-> "none"])

\* A board on which a legal move is a capture that promotes, undone exactly.
C1_Witness ==
    \E m \in Range(Legal) :
        /\ m.kill /= None
        /\ is_upgrade(m)
        /\ board[m.kill[1].row][m.kill[1].col]
               = Some(PlayersPiece(other(m.color), m.kill[1].piece))
        /\ push_unsafe(Self, m).board[m.to[1]][m.to[2]]
               = Some(PlayersPiece(m.color, Queen))
        /\ pop(push_unsafe(Self, m)) = Self

\* C2: the player to move is White before any move; after a move by colour X
\* it is X exactly when the move was a capture, was not a promotion, and the
\* piece on its landing square has a capture on the resulting board;
\* otherwise it is the opponent of X.
C2_CurrentPlayer ==
    IF moves = <<>>
    THEN current_player(Self) = White
    ELSE LET m == moves[Len(moves)]
             promoted == m.piece = Pawn /\ m.to[1] = FarRank(m.color)
             landing == {x \in Range(find_moves(Self, m.to[1], m.to[2], None)[1]) :
                            x.kill /= None}
         IN  /\ current_player(Self) = m.color
                    <=> (m.kill /= None /\ ~promoted /\ landing /= {})
             /\ current_player(Self) /= m.color
                    <=> current_player(Self) = other(m.color)
             /\ m.kill = None => current_player(Self) = other(m.color)

\* A board on which the last move was a capture and its mover moves again.
C2_Witness ==
    /\ moves /= <<>>
    /\ moves[Len(moves)].kill /= None
    /\ current_player(Self) = moves[Len(moves)].color

\* C3: if any piece of the side to move has a capture, no legal move is a
\* non-capture; if none has, the legal moves are all the generated moves.
C3_ForcedCapture ==
    LET generated == Generated
        moves_ == Legal
        legal == Range(moves_)
    IN  IF \E m \in generated : m.kill /= None
        THEN /\ \A m \in legal : m.kill /= None
             /\ legal \subseteq generated
             /\ legal /= {}
        ELSE /\ legal = generated
             /\ Len(moves_) = Cardinality(generated)

\* A board on which the side to move has a capture and a non-capture.
C3_Witness ==
    /\ \E m \in Generated : m.kill /= None
    /\ \E m \in Generated : m.kill = None
    /\ \A m \in Range(Legal) : m.kill /= None

\* C4: if the side to move has a capture by a Pawn and a capture by a Queen,
\* the legal moves are exactly the captures made by Queens.
C4_QueenPriority ==
    LET generated == Generated
        legal == Range(Legal)
    IN  (/\ \E m \in generated : m.kill /= None /\ m.piece = Pawn
         /\ \E m \in generated : m.kill /= None /\ m.piece = Queen)
        => legal = {m \in generated : m.kill /= None /\ m.piece = Queen}

\* A board on which a Pawn and a Queen of the side to move both capture.
C4_Witness ==
    /\ \E m \in Generated : m.kill /= None /\ m.piece = Pawn
    /\ \E m \in Generated : m.kill /= None /\ m.piece = Queen
    /\ \A m \in Range(Legal) : m.kill /= None /\ m.piece = Queen

Pieces(color) ==
    {p \in Range(Squares) :
        board[p[1]][p[2]] /= None /\ board[p[1]][p[2]][1].color = color}

\* C5: winner() is the colour that still has pieces when the other has none;
\* with pieces on both sides it is the opponent of the side to move when
\* that side has no legal move, and None when it has one.
C5_Winner ==
    LET white == Pieces(White)
        black == Pieces(Black)
        won == winner(Self)
    IN  /\ (white = {} /\ black /= {}) => won = Some(Black)
        /\ (black = {} /\ white /= {}) => won = Some(White)
        /\ (white /= {} /\ black /= {})
               => won = (IF Legal = <<>>
                         THEN Some(other(current_player(Self)))
                         ELSE None)

\* A board with pieces on both sides on which the side to move is blocked.
C5_Witness ==
    /\ Pieces(White) /= {}
    /\ Pieces(Black) /= {}
    /\ Legal = <<>>
    /\ winner(Self) = Some(other(current_player(Self)))

\* A board on which one colour has no piece left.
C5_WitnessEliminated ==
    /\ Pieces(Black) = {}
    /\ Pieces(White) /= {}
    /\ winner(Self) = Some(White)

\* C6: after a Pawn move that lands on the mover's far rank the landing
\* square holds a Queen of the mover's colour, and if the move was a capture
\* the opponent is to move, whether or not the new Queen has a capture.
C6_Promotion ==
    moves /= <<>> =>
        LET m == moves[Len(moves)]
        IN  (m.piece = Pawn /\ m.to[1] = FarRank(m.color))
            => /\ board[m.to[1]][m.to[2]] = Some(PlayersPiece(m.color, Queen))
               /\ (m.kill /= None => current_player(Self) = other(m.color))

\* A board right after a capture that promoted, on which the new Queen has
\* a capture from its landing square.
C6_Witness ==
    /\ moves /= <<>>
    /\ moves[Len(moves)].piece = Pawn
    /\ moves[Len(moves)].to[1] = FarRank(moves[Len(moves)].color)
    /\ moves[Len(moves)].kill /= None
    /\ find_moves(Self, moves[Len(moves)].to[1], moves[Len(moves)].to[2],
                  Some(TRUE))[1] /= <<>>
    /\ current_player(Self) = other(moves[Len(moves)].color)

\* Whether the origin of m holds a piece of the side to move.
OwnOrigin(m) ==
    /\ board[m.from[1]][m.from[2]] /= None
    /\ board[m.from[1]][m.from[2]][1].color = current_player(Self)

\* C7: push of a move that is not legal (its origin is empty, or holds a
\* piece of the other side, or the move is not among the legal moves) ends
\* in the panic "Invalid move" and leaves grid, history and turn counter as
\* they were; push of a legal move is never rejected and applies it.
C7_InvalidMove ==
    LET legal == Range(Legal)
    IN  \A m \in PushInputs(Self) :
            IF OwnOrigin(m) /\ m \in legal
            THEN push(Self, m) = [self |-> push_unsafe(Self, m), err |-> "none"]
            ELSE push(Self, m) = [self |-> Self, err |-> "Invalid move"]

\* The program ended in "Invalid move" on a board with moves played, where
\* the caller's inputs hold each kind of illegal move: one from an empty
\* square, one of a piece of the other side, and a generated move of an own
\* piece that the forced capture excludes.
C7_Witness ==
    /\ err = "Invalid move"
    /\ moves /= <<>>
    /\ \E m \in PushInputs(Self) : board[m.from[1]][m.from[2]] = None
    /\ \E m \in PushInputs(Self) :
          /\ board[m.from[1]][m.from[2]] /= None
          /\ board[m.from[1]][m.from[2]][1].color /= current_player(Self)
    /\ \E m \in PushInputs(Self) :
          /\ OwnOrigin(m)
          /\ m \in Generated
          /\ m \notin Range(Legal)

\* The index of the returned move in the list find_best_move iterated over.
ChosenIndex == CHOOSE k \in 1..Len(fbm[1].list) : fbm[1].list[k] = move_[1]

MaxOf(seq) == CHOOSE x \in Range(seq) : \A y \in Range(seq) : y <= x

\* C8 (as amended): find_best_move returns a legal move whose score is
\* maximal among the scores of all legal moves, and when several legal moves
\* have the maximal score it returns the last of them in generation order.
C8_BestMoveLastMaximal ==
    pc = "push" =>
        /\ fbm[1].list = Legal
        /\ Len(fbm[1].keys) = Len(Legal)
        /\ \E k \in 1..Len(Legal) : Legal[k] = move_[1]
        /\ \A j \in 1..Len(Legal) : fbm[1].keys[j] <= fbm[1].keys[ChosenIndex]
        /\ \A j \in 1..Len(Legal) :
              j > ChosenIndex => fbm[1].keys[j] < fbm[1].keys[ChosenIndex]

\* find_best_move returned, and a move generated before the returned one
\* has the same maximal score.
C8_Witness ==
    /\ pc = "push"
    /\ \E j \in 1..Len(fbm[1].list) :
          /\ j < ChosenIndex
          /\ fbm[1].keys[j] = fbm[1].keys[ChosenIndex]
    /\ \A j \in 1..Len(fbm[1].list) : fbm[1].keys[j] <= fbm[1].keys[ChosenIndex]

\* C8 (as claimed): find_best_move returns a legal move of maximal score,
\* the first of them in generation order when several are maximal.
C8_BestMoveFirstMaximal ==
    pc = "push" =>
        /\ \E k \in 1..Len(Legal) : Legal[k] = move_[1]
        /\ \A j \in 1..Len(Legal) : fbm[1].keys[j] <= fbm[1].keys[ChosenIndex]
        /\ \A j \in 1..Len(Legal) :
              j < ChosenIndex => fbm[1].keys[j] < fbm[1].keys[ChosenIndex]

\* A step in which a rate_inner call returns to the rate_inner that made it.
ReturnsToRate ==
    /\ pc = "search"
    /\ pc' = "search"
    /\ Len(stack) >= 2
    /\ stack[Len(stack)].ret /= None
    /\ Len(stack') = Len(stack) - 1

\* Whether the move that led to the current node passed the turn: the
\* player to move differs from the colour that made the last move.
MoverChanged == current_player(Self) /= moves[Len(moves)].color

\* C9: at a non-terminal node of rate below max_depth, the score of a move
\* is the child's value negated when applying the move changes the player
\* to move and the child's value itself when the mover stays the same, and
\* the node's value is the maximum of these scores over its legal moves.
C9_NegamaxSign ==
    [][ReturnsToRate =>
          LET value == stack[Len(stack)].ret[1]
              scores == stack'[Len(stack')].scores
          IN  /\ scores[Len(scores)] = (IF MoverChanged THEN -value ELSE value)
              /\ stack'[Len(stack')].ret /= None
                    => /\ Len(scores) = Len(stack'[Len(stack')].list)
                       /\ stack'[Len(stack')].ret[1] = MaxOf(scores)]_vars

\* C10: a child position is searched at depth + 1 exactly when applying the
\* move changed the player to move and at the same depth when the mover
\* stayed the same; the static evaluation is taken exactly at the
\* non-terminal nodes whose depth equals max_depth.
C10_DepthRule ==
    /\ Len(stack) >= 2
          => stack[Len(stack)].depth =
                 (IF MoverChanged THEN stack[Len(stack) - 1].depth + 1
                  ELSE stack[Len(stack) - 1].depth)
    /\ (pc = "search" /\ stack /= <<>>)
          => (stack[Len(stack)].via = "static"
                 <=> (winner(Self) = None /\ stack[Len(stack)].depth = MaxDepth))

\* The call of rate_inner on top of the stack, on a decided board.
TerminalCut ==
    (pc = "search" /\ stack /= <<>>) =>
        LET top == stack[Len(stack)]
            won == winner(Self)
        IN  /\ top.via = "terminal" <=> won /= None
            /\ won /= None =>
                  /\ top.ret = Some(IF won[1] = top.player THEN Win ELSE -Win)
                  /\ top.list = <<>>
                  /\ top.scores = <<>>
                  /\ err = "none"

\* C11: at every node of rate on which winner() is decided the call returns
\* +win when the winner is the player it rates for and -win otherwise, with
\* no move generated or applied, also at depth = max_depth where the static
\* evaluation would otherwise be taken; rate on a decided board is no error.
C11_TerminalCut == []TerminalCut

\* A decided node met at depth = max_depth, rated for the side that won.
C11_Witness ==
    /\ pc = "search"
    /\ stack /= <<>>
    /\ stack[Len(stack)].via = "terminal"
    /\ stack[Len(stack)].depth = MaxDepth
    /\ stack[Len(stack)].ret = Some(Win)
    /\ winner(Self) = Some(stack[Len(stack)].player)

\* A decided node met below max_depth, rated for the side that lost.
C11_WitnessShallow ==
    /\ pc = "search"
    /\ stack /= <<>>
    /\ stack[Len(stack)].via = "terminal"
    /\ stack[Len(stack)].depth < MaxDepth
    /\ stack[Len(stack)].ret = Some(-Win)
    /\ winner(Self) = Some(other(stack[Len(stack)].player))

\* C12: on every position of the game played from the starting position
\* with 2 back rows per side, the move find_best_move returns is one of the
\* legal moves of the side to move and passes is_valid_move; it is never a
\* non-capturing move when a piece of the side to move has a capture.
C12_BestMoveLegal ==
    pc = "push" =>
        LET generated == Generated
        IN  /\ move_ /= None
            /\ contains(find_all_current_moves(Self), move_[1])
            /\ is_valid_move(Self, move_[1])
            /\ move_[1].color = current_player(Self)
            /\ move_[1] \in generated
            /\ (\E m \in generated : m.kill /= None) => move_[1].kill /= None

\* find_best_move returned a capture on a position where the side to move
\* also has non-capturing moves.
C12_Witness ==
    /\ pc = "push"
    /\ move_[1].kill /= None
    /\ \E m \in Generated : m.kill = None
    /\ contains(find_all_current_moves(Self), move_[1])

\* Whether the mover of the last applied move is to move again.
ChainContinues ==
    /\ moves /= <<>>
    /\ current_player(Self) = moves[Len(moves)].color

\* C13: whenever the player to move is the colour of the last applied move,
\* every legal move is a capture whose origin is the landing square of the
\* last applied move, so the captures of one turn are made by one piece.
C13_ChainSamePiece ==
    ChainContinues =>
        \A m \in Range(find_all_current_moves(Self)) :
            /\ m.kill /= None
            /\ m.from = moves[Len(moves)].to

\* The board reached from self by push_unsafe of ms[k], ms[k + 1], ...
RECURSIVE Replayed(_, _, _)
Replayed(self, ms, k) ==
    IF k > Len(ms) THEN self ELSE Replayed(push_unsafe(self, ms[k]), ms, k + 1)

\* The length of the history find_best_move was called with: every move
\* applied since and not yet undone has one call of rate_inner on the stack.
RootLen == Len(moves) - Len(stack)

\* C14: find_best_move and rate leave the board as they found it.  In every
\* step of the search the moves applied and not yet undone are as many as
\* the calls in progress and the history below them is untouched; whenever
\* all calls have returned, the history is the one of before the call and
\* the grid and the turn counter are again those that history produces from
\* the starting position; the assertion of with_move_unsafe never fails.
C14_SearchRestores ==
    [][(pc \in {"main", "search"}) =>
          /\ Len(moves') - Len(stack') = RootLen
          /\ SubSeq(moves', 1, RootLen) = SubSeq(moves, 1, RootLen)
          /\ stack' = <<>> =>
                /\ moves' = SubSeq(moves, 1, RootLen)
                /\ [board |-> board', moves |-> moves', turn |-> turn']
                       = Replayed(new(Lines), moves', 1)
          /\ err' /= "assertion failed"]_vars

\* find_best_move returned after applying and undoing a capture and at
\* least one other move, and the board is the one its history produces.
C14_Witness ==
    /\ pc = "push"
    /\ stack = <<>>
    /\ Len(fbm[1].keys) = Len(fbm[1].list)
    /\ Len(fbm[1].list) >= 2
    /\ \E k \in 1..Len(fbm[1].list) : fbm[1].list[k].kill /= None
    /\ moves /= <<>>
    /\ Self = Replayed(new(Lines), moves, 1)

\* Along the calls of rate_inner in progress the depth never decreases, a
\* call at the depth of its caller was entered by a capture, and no call
\* has a depth above max_depth.
DepthOrder ==
    /\ \A k \in 1..Len(stack) : stack[k].depth <= MaxDepth
    /\ \A k \in 2..Len(stack) :
          /\ stack[k].depth >= stack[k - 1].depth
          /\ stack[k].depth = stack[k - 1].depth => moves[RootLen + k].kill /= None

\* Inside find_best_move a next step exists: a call in progress has a move
\* left to apply or a value to return.
CanStep ==
    pc = "search" =>
        IF stack = <<>>
        THEN fbm /= None /\ fbm[1].i <= Len(fbm[1].list)
        ELSE \/ stack[Len(stack)].ret /= None
             \/ stack[Len(stack)].i <= Len(stack[Len(stack)].list)

\* C15: the search terminates.  Along every path of the recursion the depth
\* never decreases, every step that keeps the depth applies a capture, no
\* node is searched at a depth above max_depth, the search never stops
\* half way, and every call of find_best_move returns.
C15_SearchTerminates ==
    /\ []DepthOrder
    /\ []CanStep
    /\ (pc = "search") ~> (pc = "push")

\* A call of rate_inner in progress at the depth of its caller, entered by
\* a capture.
C15_Witness ==
    /\ pc = "search"
    /\ \E k \in 2..Len(stack) :
          /\ stack[k].depth = stack[k - 1].depth
          /\ moves[RootLen + k].kill /= None

\* C16: on every board reached from Board::new by applies and undos, the
\* grid is the 8x8 grid, every square holds at most one piece, every
\* occupied square (row, col) has row + col even, and every legal move
\* lands inside the grid on a square with row + col even.
C16_BoardInvariant ==
    /\ DOMAIN board = 0..7
    /\ \A r \in 0..7 :
          /\ DOMAIN board[r] = 0..7
          /\ \A c \in 0..7 :
                /\ Len(board[r][c]) <= 1
                /\ board[r][c] /= None =>
                      /\ (r + c) % 2 = 0
                      /\ board[r][c][1].color \in {White, Black}
                      /\ board[r][c][1].piece \in {Pawn, Queen}
    /\ \A m \in Range(find_all_current_moves(Self)) :
          /\ in_bounds(m.to[1], m.to[2])
          /\ (m.to[1] + m.to[2]) % 2 = 0

\* A board inside the search, after applies and undos, on which a Queen has
\* a legal move of more than one step and a Pawn of each side is left.
C16_Witness ==
    /\ pc = "search"
    /\ stack /= <<>>
    /\ \E m \in Range(find_all_current_moves(Self)) :
          /\ m.piece = Queen
          /\ abs(m.to[1] - m.from[1]) >= 2
    /\ \E p \in Range(Squares) : board[p[1]][p[2]] = Some(PlayersPiece(White, Pawn))
    /\ \E p \in Range(Squares) : board[p[1]][p[2]] = Some(PlayersPiece(Black, Pawn))

\* The rule of the game for one piece, stated square by square, against
\* which find_moves is compared.
Empty(r, c) == in_bounds(r, c) /\ board[r][c] = None

Enemy(r, c, color) ==
    in_bounds(r, c) /\ board[r][c] /= None /\ board[r][c][1].color /= color

\* A Pawn on (r, c): on each forward diagonal a step to the empty adjacent
\* square, or else a jump over the adjacent enemy piece to the empty square
\* directly behind it.
RulePawn(r, c, color) ==
    LET fwd == IF color = White THEN 1 ELSE -1
    IN  {Move(<<r, c>>, <<r + fwd, c + dc>>, Pawn, None, color) :
            dc \in {x \in {-1, 1} : Empty(r + fwd, c + x)}}
        \cup
        {Move(<<r, c>>, <<r + 2 * fwd, c + 2 * dc>>, Pawn,
              Some(PosUncolorPiece(board[r + fwd][c + dc][1].piece, r + fwd, c + dc)),
              color) :
            dc \in {x \in {-1, 1} : /\ Enemy(r + fwd, c + x, color)
                                    /\ Empty(r + 2 * fwd, c + 2 * x)}}

\* A Queen on (r, c): on each diagonal every square reached over empty
\* squares only, and every square reached over empty squares and exactly
\* one enemy piece that has an empty square directly behind it.
RuleQueen(r, c, color) ==
    UNION {
        {Move(<<r, c>>, <<r + n * d[1], c + n * d[2]>>, Queen, None, color) :
            n \in {x \in 1..7 : \A k \in 1..x : Empty(r + k * d[1], c + k * d[2])}}
        \cup
        {Move(<<r, c>>, <<r + j[2] * d[1], c + j[2] * d[2]>>, Queen,
              Some(PosUncolorPiece(board[r + j[1] * d[1]][c + j[1] * d[2]][1].piece,
                                   r + j[1] * d[1], c + j[1] * d[2])),
              color) :
            j \in {x \in (1..7) \X (1..7) :
                      /\ x[1] < x[2]
                      /\ Enemy(r + x[1] * d[1], c + x[1] * d[2], color)
                      /\ \A k \in 1..x[2] :
                            k /= x[1] => Empty(r + k * d[1], c + k * d[2])}}
        : d \in {-1, 1} \X {-1, 1}}

RuleMoves(r, c) ==
    IF board[r][c][1].piece = Pawn
    THEN RulePawn(r, c, board[r][c][1].color)
    ELSE RuleQueen(r, c, board[r][c][1].color)

\* find_moves against the rule, on the board of one state.
FindMovesExact ==
    \A p \in Range(Squares) :
        IF board[p[1]][p[2]] = None
        THEN \A kills \in {None, Some(TRUE), Some(FALSE)} :
                 find_moves(Self, p[1], p[2], kills) = None
        ELSE LET rule == RuleMoves(p[1], p[2])
                 all == find_moves(Self, p[1], p[2], None)
                 killing == find_moves(Self, p[1], p[2], Some(TRUE))
                 quiet == find_moves(Self, p[1], p[2], Some(FALSE))
             IN  /\ all /= None /\ killing /= None /\ quiet /= None
                 /\ Range(all[1]) = rule
                 /\ Len(all[1]) = Cardinality(rule)
                 /\ Range(killing[1]) = {m \in rule : m.kill /= None}
                 /\ Range(quiet[1]) = {m \in rule : m.kill = None}
                 /\ Len(killing[1]) + Len(quiet[1]) = Len(all[1])

\* C17: find_moves returns None on an empty square and otherwise exactly
\* the moves of the rule for the piece there, each once: all of them with
\* no filter, the captures with the filter Some(true) and the non-captures
\* with the filter Some(false).
C17_FindMovesExact == []FindMovesExact

\* A board on which a Queen has, on one diagonal, a non-capturing move and
\* two landing squares behind the same enemy piece, and a Pawn has a
\* capture.
C17_Witness ==
    /\ \E p \in Range(Squares) :
          /\ board[p[1]][p[2]] /= None
          /\ board[p[1]][p[2]][1].piece = Queen
          /\ \E m1, m2 \in RuleMoves(p[1], p[2]) :
                /\ m1.kill /= None
                /\ m2.kill = m1.kill
                /\ m1.to /= m2.to
          /\ \E m \in RuleMoves(p[1], p[2]) : m.kill = None
    /\ \E p \in Range(Squares) :
          /\ board[p[1]][p[2]] /= None
          /\ board[p[1]][p[2]][1].piece = Pawn
          /\ \E m \in Range(find_moves(Self, p[1], p[2], Some(TRUE))[1]) : TRUE

\* C18: pop on an empty history returns the panic "No moves to pop" with
\* grid, history and turn counter as they were, and every step that ends
\* in that panic starts from an empty history and leaves the three as they
\* were: the turn counter is not counted down before the panic.
C18_PopEmptyHistory ==
    /\ [](moves = <<>> =>
            \A checked \in overflow_checks(Self) :
                pop_expect(Self, checked) = [self |-> Self, err |-> "No moves to pop"])
    /\ [][err' = "No moves to pop" =>
            /\ moves = <<>>
            /\ pc' = "panic"
            /\ UNCHANGED <<board, moves, turn>>]_vars

\* The program ended in "No moves to pop", the turn counter still 0.
C18_Witness ==
    /\ pc = "panic"
    /\ err = "No moves to pop"
    /\ moves = <<>>
    /\ turn = 0

\* The values the claim lists for c(0), .., c(7).
CentreValues == <<1, 2, 3, 4, 4, 3, 2, 1>>

\* C19: with whole weights, PositionRates::rate of a Pawn is (row + 1) x
\* the pawn weight for White and (8 - row) x the pawn weight for Black,
\* hence 1 x the weight on the home rank and 8 x on the promotion rank; of
\* a Queen it is (c(row) + c(col)) x the queen weight whatever the colour,
\* where c takes the values 1,2,3,4,4,3,2,1, so c(v) = c(7 - v), largest at
\* the centre and smallest at the edges.
C19_PositionalTerm ==
    (pc = "rate" /\ stack[1].ret /= None) =>
        LET f == stack[1]
            value == f.ret[1]
        IN  /\ (f.piece = Pawn /\ f.color = White) =>
                  value = (f.row + 1) * f.self.pawn
            /\ (f.piece = Pawn /\ f.color = Black) =>
                  value = (8 - f.row) * f.self.pawn
            /\ (f.piece = Pawn /\ f.row = 7 - FarRank(f.color)) =>
                  value = f.self.pawn
            /\ (f.piece = Pawn /\ f.row = FarRank(f.color)) =>
                  value = 8 * f.self.pawn
            /\ f.piece = Queen =>
                  /\ value = (CentreValues[f.row + 1] + CentreValues[f.col + 1])
                             * f.self.queen
                  /\ value = position_rates_rate(f.self, f.row, f.col,
                                                 other(f.color), Queen)
            /\ centered(f.row) = CentreValues[f.row + 1]
            /\ centered(f.row) = centered(7 - f.row)
            /\ centered(0) <= centered(f.row)
            /\ centered(f.row) <= centered(3)
            /\ centered(3) = centered(4)

\* The rate of a Black Queen on a centre square with the weight 2 has been
\* returned.
C19_Witness ==
    /\ pc = "rate"
    /\ stack[1].ret = Some(16)
    /\ stack[1].piece = Queen
    /\ stack[1].color = Black
    /\ stack[1].row = 3
    /\ stack[1].col = 4
    /\ stack[1].self.queen = 2

\* C20: if a move left by the forced-capture filter belongs to a Queen,
\* the legal moves hold no move of a Pawn, captures or not: legal moves of
\* a Queen and of a Pawn never come together.
C20_QueenFilterAlways ==
    LET generated == Generated
        legal == Range(Legal)
        forced == IF \E m \in generated : m.kill /= None
                  THEN {m \in generated : m.kill /= None}
                  ELSE generated
    IN  /\ (\E m \in forced : m.piece = Queen) => \A m \in legal : m.piece /= Pawn
        /\ ~(/\ \E m \in legal : m.piece = Queen
             /\ \E m \in legal : m.piece = Pawn)

\* C22: on the boards reached by legal moves on which winner() is None,
\* find_best_move reaches none of its fatal checks: the list it maximises
\* over is not empty, every call of rate_inner that goes into its loop has
\* a move to iterate over, and the history is not empty in any such call,
\* so that last_player() is defined there.
C22_NoFatalCheck ==
    /\ err \notin {"unwrap on None", "No moves", "max_depth must be > 0"}
    /\ (pc = "main" /\ winner(Self) = None) => find_all_current_moves(Self) /= <<>>
    /\ pc = "search" => fbm[1].list /= <<>>
    /\ \A k \in 1..Len(stack) :
          /\ stack[k].via = "search" => stack[k].list /= <<>>
          /\ Len(moves) - (Len(stack) - k) >= 1
    /\ stack /= <<>> => last_player(Self) /= None

\* find_best_move on a board with moves played and no winner, inside a call
\* of rate_inner that has gone through part of its moves and has more to go.
C22_Witness ==
    /\ pc = "search"
    /\ Len(stack) = 1
    /\ RootLen >= 1
    /\ stack[1].via = "search"
    /\ stack[1].i > 1
    /\ stack[1].i <= Len(stack[1].list)
    /\ winner(Self) = None

\* The number of the moves ms[k], ms[k + 1], ... applied in this order to
\* self after which the side to move is not the one that made the move.
RECURSIVE MoverChanges(_, _, _)
MoverChanges(self, ms, k) ==
    IF k > Len(ms)
    THEN 0
    ELSE LET counted(after) ==
                 (IF current_player(after) /= ms[k].color THEN 1 ELSE 0)
                 + MoverChanges(after, ms, k + 1)
         IN  counted(push_grid(self, ms[k]))

\* C21: after legal applies and undos from the starting position the turn
\* counter is the number of moves of the history after which the mover
\* changed, and White is to move exactly when it is even; an apply that
\* passes the turn adds one to it and an apply that continues a chain
\* leaves it alone; an undo takes back what the apply of the move it
\* removes had added and never takes the counter below zero.
C21_TurnCounter ==
    /\ [](/\ turn = MoverChanges(new(Lines), moves, 1)
          /\ turn >= 0
          /\ (current_player(Self) = White) <=> (turn % 2 = 0)
          /\ err /= "attempt to subtract with overflow")
    /\ [][/\ Len(moves') = Len(moves) + 1 =>
               LET mover == current_player(Self)
                   after == [board |-> board', moves |-> moves', turn |-> turn']
               IN  /\ moves'[Len(moves')].color = mover
                   /\ current_player(after) /= mover => turn' = turn + 1
                   /\ current_player(after) = mover => turn' = turn
          /\ Len(moves') = Len(moves) - 1 =>
               LET after == [board |-> board', moves |-> moves', turn |-> turn']
               IN  /\ current_player(after) /= current_player(Self) => turn' = turn - 1
                   /\ current_player(after) = current_player(Self) => turn' = turn]_vars

\* A capture has just been applied that leaves its side to move, after
\* turns of both sides: the counter is behind the length of the history.
C21_Witness ==
    /\ moves /= <<>>
    /\ moves[Len(moves)].kill /= None
    /\ current_player(Self) = moves[Len(moves)].color
    /\ turn >= 2
    /\ turn < Len(moves)
    /\ turn = MoverChanges(new(Lines), moves, 1)

\* The number of pieces of a colour on a grid.
PiecesLeft(grid, color) ==
    Cardinality({p \in Range(Squares) :
                    /\ grid[p[1]][p[2]] /= None
                    /\ grid[p[1]][p[2]][1].color = color})

\* main can take its next step: the loop test, a step of the search, or the
\* push of the move find_best_move returned.
MainCanStep ==
    /\ CanStep
    /\ pc = "push" => move_ /= None
    /\ pc \in {"main", "search", "push", "done"}

\* C23: the game loop of main terminates.  push never ends in "Invalid
\* move"; every push of the loop passes the turn, adding one to the turn
\* counter, or removes a piece of the other side; between the searches the
\* turn counter is at most 100; main never stops half way, and in the end
\* the loop is left with a winner or with the turn counter at 100.
C23_GameLoopTerminates ==
    /\ [](err /= "Invalid move")
    /\ [](pc /= "search" => (turn >= 0 /\ turn <= TurnLimit))
    /\ []MainCanStep
    /\ [][pc = "push" =>
            /\ pc' = "main"
            /\ moves' = Append(moves, move_[1])
            /\ \/ turn' = turn + 1
               \/ /\ turn' = turn
                  /\ PiecesLeft(board', other(move_[1].color))
                        = PiecesLeft(board, other(move_[1].color)) - 1]_vars
    /\ [](pc = "done" => (winner(Self) /= None \/ turn = TurnLimit))
    /\ <>(pc = "done")

\* The loop has been left with a winner before the turn counter reached
\* 100, after a game with captures.
C23_Witness ==
    /\ pc = "done"
    /\ err = "none"
    /\ winner(Self) /= None
    /\ turn > 0
    /\ turn < TurnLimit
    /\ \E k \in 1..Len(moves) : moves[k].kill /= None

====
